---- MODULE Spec2Model ----
(***************************************************************************)
(* Session engine of Web Flashcards: the daily review queue, card rating   *)
(* (simple mode and SM-2 spaced repetition), one-level undo, the daily     *)
(* counters and the handlers of the UI that drive them.                    *)
(*                                                                         *)
(* Cards are JavaScript objects: the model keeps a heap `card` of objects  *)
(* addressed by reference, deck.cards and the queue hold references.       *)
(* Calendar dates are day numbers (ISO date strings compare like them).    *)
(* easeFactor is kept in units of 1/10000, so that the rounding to three   *)
(* decimals the code performs is a real operation.                         *)
(***************************************************************************)
EXTENDS Integers, Sequences, FiniteSets

\* ------------------------------------------------------------------ bounds
MaxCards == 2
MaxExtension == 2
MaxDay == 1
MaxRatings == 2

\* ------------------------------------------------------- values of the code
\* JavaScript null and a missing property (undefined), as field values.
NULL == -1
ABSENT == -2
DEFAULT_DAILY_LIMIT == 5

\* Scheduling values a stored card can carry: missing, the defaults, values
\* ratings lead to, and an ease that is not a multiple of 0.001.
Intervals == {ABSENT, 1, 2, 3, 5}
Eases == {ABSENT, 13000, 14000, 24996, 25000}

\* The card objects: those of a stored deck and one more.
Refs == 1..(MaxCards + 1)
Words == {"a"}
Translations == {"x", "y"}
Limits == {1, 2}
Modes == {"simple", "spaced"}
Amounts == {-1, 0, 1, 2}

VARIABLES
    today,         \* the calendar day getTodayStr() returns
    deck,          \* UI.currentDeck: the deck's fields, cards as references
    card,          \* the card objects, by reference
    queue,         \* Session.queue
    currentIndex,  \* Session.currentIndex
    rewindBackup,  \* Session.rewindBackup: <<>> is null, <<r>> a record
    lastOp,        \* what ran last: "buildQueue", "resetDeckCards", "rateCard",
                   \* "rewind", "render" or "other"
    ret,           \* what it returned
    pre,           \* <<>> or the state right before the last matched rating
    streak,        \* matched ratings in a row with nothing between (to 2)
    rated,         \* ratings applied to a card so far (bounds the run)
    modal,         \* the dialog that is open: "none" or "card-editor"
    appState,      \* UI.appState
    currentDeck,   \* the name of UI.currentDeck, NoDeck when it is null; its
                   \* fields and cards are in deck and card
    storage        \* localStorage: under every name <<the stored deck>>, or <<>>

vars == <<today, deck, card, queue, currentIndex, rewindBackup, lastOp, ret, pre, streak,
          rated, modal, appState, currentDeck, storage>>

\* ----------------------------------------------------------------- helpers
Max(a, b) == IF a >= b THEN a ELSE b
Min(a, b) == IF a <= b THEN a ELSE b

\* JavaScript `v || d` on a number field: undefined, null and 0 are falsy.
OrDefault(v, d) == IF v \in {ABSENT, NULL, 0} THEN d ELSE v

\* JavaScript `!v` on a date field.
Falsy(v) == v \in {ABSENT, NULL}

RECURSIVE Filter(_, _)
\* Array.prototype.filter of a sequence of references, keeping those in `keep`.
Filter(s, keep) ==
    IF s = <<>> THEN <<>>
    ELSE IF Head(s) \in keep THEN <<Head(s)>> \o Filter(Tail(s), keep)
         ELSE Filter(Tail(s), keep)

Range(s) == {s[i] : i \in DOMAIN s}

\* [a[i], a[j]] = [a[j], a[i]], positions counted from 1 here.
Swap(s, i, j) == [s EXCEPT ![i] = s[j], ![j] = s[i]]

\* Draws with j anywhere in the array at every round.
DrawsAnyIndex(n) == [1..(n - 1) -> 0..(n - 1)]

\* What Math.floor(Math.random() * (i + 1)) can give in the rounds
\* i = n - 1 down to 1 of the shuffle: j[i] in 0..i.
Draws(n) == {j \in [1..(n - 1) -> 0..(n - 1)] : \A i \in 1..(n - 1) : j[i] <= i}

RECURSIVE FisherYatesFrom(_, _, _)
\* The rounds i, i - 1, ..., 1 of the shuffle loop with the draws j.
FisherYatesFrom(s, j, i) ==
    IF i <= 0 THEN s
    ELSE FisherYatesFrom(Swap(s, i + 1, j[i] + 1), j, i - 1)

\* The shuffle loop of buildQueue with the draws j.
FisherYates(s, j) == FisherYatesFrom(s, j, Len(s) - 1)

\* Every order the Fisher-Yates loop can leave the candidates in.
Shuffles(s) == {FisherYates(s, j) : j \in Draws(Len(s))}

SliceOneMore(s, n) == SubSeq(s, 1, Min(n + 1, Len(s)))

\* Array.prototype.slice(0, n)
Slice(s, n) == SubSeq(s, 1, Min(n, Len(s)))

\* Array.prototype.splice(idx, 1), idx counted from 1 here.
Splice(s, idx) == SubSeq(s, 1, idx - 1) \o SubSeq(s, idx + 1, Len(s))

addDaysOneLess(date, days) == date + days - 1

addDays(date, days) == date + days

checkDayResetKeepsExtension(d, t) ==
    IF d.lastSessionDate # t
    THEN [d EXCEPT !.lastSessionDate = t, !.cardsReviewedToday = 0]
    ELSE d

\* checkDayReset that resets only a deck that has a lastSessionDate.
checkDayResetOnlyDated(d, t) ==
    IF ~Falsy(d.lastSessionDate) /\ d.lastSessionDate # t
    THEN [d EXCEPT !.lastSessionDate = t, !.cardsReviewedToday = 0,
                   !.sessionExtension = 0]
    ELSE d

\* -------------------------------------------------------------- day reset
checkDayReset(d, t) ==
    IF d.lastSessionDate # t
    THEN [d EXCEPT !.lastSessionDate = t, !.cardsReviewedToday = 0,
                   !.sessionExtension = 0]
    ELSE d

\* ---------------------------------------------------------- queue building
SpacedCandidateNotYetDue(c, t) == Falsy(c.dueDate) \/ c.dueDate >= t
SimpleCandidateToReviewOnly(c) == c.sessionStatus = "TO_REVIEW"

\* The two filters of buildQueue.
SpacedCandidate(c, t) == Falsy(c.dueDate) \/ c.dueDate <= t
SimpleCandidate(c) == c.sessionStatus # "FINISHED"

Candidates(d, heap, t) ==
    IF d.learningMode = "spaced"
    THEN Filter(d.cards, {r \in Refs : SpacedCandidate(heap[r], t)})
    ELSE Filter(d.cards, {r \in Refs : SimpleCandidate(heap[r])})

RemainingIgnoresReviewed(d) ==
    Max(0, OrDefault(d.dailyLimit, DEFAULT_DAILY_LIMIT) + OrDefault(d.sessionExtension, 0))

\* remaining, from effectiveLimit and alreadyDone
Remaining(d) ==
    Max(0, (OrDefault(d.dailyLimit, DEFAULT_DAILY_LIMIT) + OrDefault(d.sessionExtension, 0))
           - OrDefault(d.cardsReviewedToday, 0))

buildQueueKeepsUndo(d) ==
    LET d1 == checkDayReset(d, today)
    IN  /\ deck' = d1
        /\ \E p \in Shuffles(Candidates(d1, card, today)) :
               queue' = Slice(p, Remaining(d1))
        /\ currentIndex' = 0
        /\ UNCHANGED rewindBackup

\* buildQueue(deck): the day reset, then queue, currentIndex, rewindBackup.
buildQueue(d) ==
    LET d1 == checkDayReset(d, today)
    IN  /\ deck' = d1
        /\ \E p \in Shuffles(Candidates(d1, card, today)) :
               queue' = Slice(p, Remaining(d1))
        /\ currentIndex' = 0
        /\ rewindBackup' = <<>>

\* ------------------------------------------------------------------ queries
\* isComplete true only once the cursor is past the end of the queue.
isCompletePastEnd == currentIndex > Len(queue)

isComplete == currentIndex >= Len(queue)
getCurrentCard == IF currentIndex >= Len(queue) THEN NULL ELSE queue[currentIndex + 1]
getProgress == [current |-> currentIndex, total |-> Len(queue)]
canRewind == rewindBackup # <<>>

\* getDeckStats counting as due only the cards due before today.
getDeckStatsDueBeforeToday(d, heap, t) ==
    LET n(keep) == Cardinality({i \in DOMAIN d.cards : keep[d.cards[i]]})
    IN  IF d.learningMode = "spaced"
        THEN [mode |-> "spaced",
              total |-> Len(d.cards),
              due |-> n([r \in Refs |-> Falsy(heap[r].dueDate) \/ heap[r].dueDate < t]),
              upcoming |-> n([r \in Refs |-> ~Falsy(heap[r].dueDate) /\ heap[r].dueDate > t])]
        ELSE [mode |-> "simple",
              total |-> Len(d.cards),
              finished |-> n([r \in Refs |-> heap[r].sessionStatus = "FINISHED"]),
              toReview |-> n([r \in Refs |-> heap[r].sessionStatus = "TO_REVIEW"])]

\* getDeckStats(deck): the counts the status bar and the completion screen
\* show.
getDeckStats(d, heap, t) ==
    LET n(keep) == Cardinality({i \in DOMAIN d.cards : keep[d.cards[i]]})
    IN  IF d.learningMode = "spaced"
        THEN [mode |-> "spaced",
              total |-> Len(d.cards),
              due |-> n([r \in Refs |-> Falsy(heap[r].dueDate) \/ heap[r].dueDate <= t]),
              upcoming |-> n([r \in Refs |-> ~Falsy(heap[r].dueDate) /\ heap[r].dueDate > t])]
        ELSE [mode |-> "simple",
              total |-> Len(d.cards),
              finished |-> n([r \in Refs |-> heap[r].sessionStatus = "FINISHED"]),
              toReview |-> n([r \in Refs |-> heap[r].sessionStatus # "FINISHED"])]

\* render(): what the page shows of the session, read through the queries;
\* none of them assigns anything.
render ==
    /\ ret' = [complete |-> isComplete,
               current |-> getCurrentCard,
               progress |-> getProgress,
               canRewind |-> canRewind,
               stats |-> getDeckStats(deck, card, today)]
    /\ UNCHANGED <<deck, card, queue, currentIndex, rewindBackup>>

\* ------------------------------------------------------------------- rating
Ratings(mode) ==
    IF mode = "spaced" THEN {"again", "hard", "good", "easy"}
    ELSE {"forgot", "remembered"}

RoundEaseDown(e) == (e \div 10) * 10

\* Math.round(ease * 1000) / 1000, ease in units of 1/10000.
RoundEase(e) == ((e + 5) \div 10) * 10

applySpacedRatingAlwaysAgain(c, rating, t) ==
    [c EXCEPT !.interval = 1, !.dueDate = t, !.sessionStatus = "SPACED"]

applySpacedRatingEasyOfFour(c, rating, t) ==
    [c EXCEPT !.interval = 4, !.easeFactor = 26500, !.dueDate = addDays(t, 4),
              !.sessionStatus = "SPACED"]

applySpacedRating(c, rating, t) ==
    LET interval == OrDefault(c.interval, 1)
        ease == OrDefault(c.easeFactor, 25000)
        hardI == Max(1, (interval * 12 + 5) \div 10)
        goodI == Max(1, (interval * ease + 5000) \div 10000)
        easyI == Max(1, (interval * ease * 13 + 50000) \div 100000)
    IN  CASE rating = "again" ->
               [c EXCEPT !.interval = 1, !.easeFactor = RoundEase(Max(13000, ease - 2000)),
                         !.dueDate = t, !.sessionStatus = "SPACED"]
          [] rating = "hard" ->
               [c EXCEPT !.interval = hardI, !.easeFactor = RoundEase(Max(13000, ease - 1500)),
                         !.dueDate = addDays(t, hardI), !.sessionStatus = "SPACED"]
          [] rating = "good" ->
               [c EXCEPT !.interval = goodI, !.easeFactor = RoundEase(ease),
                         !.dueDate = addDays(t, goodI), !.sessionStatus = "SPACED"]
          [] rating = "easy" ->
               [c EXCEPT !.interval = easyI, !.easeFactor = RoundEase(ease + 1500),
                         !.dueDate = addDays(t, easyI), !.sessionStatus = "SPACED"]
          [] OTHER ->
               [c EXCEPT !.interval = interval, !.easeFactor = RoundEase(ease),
                         !.sessionStatus = "SPACED"]

applySimpleRatingForgotFinishes(c, rating) == [c EXCEPT !.sessionStatus = "FINISHED"]

applySimpleRating(c, rating) ==
    IF rating = "remembered" THEN [c EXCEPT !.sessionStatus = "FINISHED"] ELSE c

MatchesWordOnly(r, q) == r = q \/ card[r].word = card[q].word

\* The predicate of deck.cards.find in rateCard.
Matches(r, q) ==
    \/ r = q
    \/ (card[r].word = card[q].word /\ card[r].translation = card[q].translation)

\* deck.cards.find(...): the first element that matches, NULL when none does.
FindDeckCard(q) ==
    LET hits == {i \in DOMAIN deck.cards : Matches(deck.cards[i], q)}
    IN  IF hits = {} THEN NULL
        ELSE deck.cards[CHOOSE i \in hits : \A j \in hits : i <= j]


rateMatchedKeepsRecord(deckCard, rating) ==
    /\ rewindBackup' =
           IF rewindBackup # <<>> THEN rewindBackup
           ELSE << [index |-> currentIndex,
                    cardSnapshot |-> card[deckCard],
                    deckCardRef |-> deckCard,
                    cardsReviewedToday |-> OrDefault(deck.cardsReviewedToday, 0)] >>
    /\ card' = [card EXCEPT ![deckCard] =
                   IF deck.learningMode = "spaced"
                   THEN applySpacedRating(card[deckCard], rating, today)
                   ELSE applySimpleRating(card[deckCard], rating)]
    /\ deck' = [deck EXCEPT !.cardsReviewedToday =
                   OrDefault(deck.cardsReviewedToday, 0) + 1]
    /\ currentIndex' = currentIndex + 1
    /\ UNCHANGED queue

\* rateCard, from the undo record on: deckCard is the card that was found.
rateMatched(deckCard, rating) ==
    /\ rewindBackup' = << [index |-> currentIndex,
                          cardSnapshot |-> card[deckCard],
                          deckCardRef |-> deckCard,
                          cardsReviewedToday |-> OrDefault(deck.cardsReviewedToday, 0)] >>
    /\ card' = [card EXCEPT ![deckCard] =
                   IF deck.learningMode = "spaced"
                   THEN applySpacedRating(card[deckCard], rating, today)
                   ELSE applySimpleRating(card[deckCard], rating)]
    /\ deck' = [deck EXCEPT !.cardsReviewedToday =
                   OrDefault(deck.cardsReviewedToday, 0) + 1]
    /\ currentIndex' = currentIndex + 1
    /\ UNCHANGED queue

\* rateCard staying on an entry that matches no card of the deck.
rateCurrentKeepsStaleEntry(rating) ==
    LET queueCard == queue[currentIndex + 1]
        deckCard == FindDeckCard(queueCard)
    IN  IF deckCard = NULL
        THEN UNCHANGED <<deck, card, queue, currentIndex, rewindBackup>>
        ELSE rateMatched(deckCard, rating)

\* rateCard, once a current card exists.
rateCurrent(rating) ==
    LET queueCard == queue[currentIndex + 1]
        deckCard == FindDeckCard(queueCard)
    IN  IF deckCard = NULL
        THEN /\ currentIndex' = currentIndex + 1
             /\ UNCHANGED <<deck, card, queue, rewindBackup>>
        ELSE rateMatched(deckCard, rating)

rateCardAdvancesWhenComplete(rating) ==
    IF currentIndex >= Len(queue)
    THEN /\ currentIndex' = currentIndex + 1
         /\ UNCHANGED <<deck, card, queue, rewindBackup>>
    ELSE rateCurrent(rating)

\* rateCard(deck, rating)
rateCard(rating) ==
    IF currentIndex >= Len(queue)
    THEN UNCHANGED <<deck, card, queue, currentIndex, rewindBackup>>
    ELSE rateCurrent(rating)

\* ------------------------------------------------------------------- rewind
CardFields == {"word", "translation", "sessionStatus", "dueDate", "interval", "easeFactor"}
\* The fields a stored card may lack (word, translation and sessionStatus are
\* always there).
OptionalFields == {"dueDate", "interval", "easeFactor"}

\* Whether object o has property f.
Has(o, f) == f \notin OptionalFields \/ o[f] # ABSENT

\* Object.assign(target, source): copies the properties the source has.
ObjectAssign(target, source) ==
    [f \in CardFields |-> IF Has(source, f) THEN source[f] ELSE target[f]]

\* rewind putting the restored card into every slot of the queue.
rewindRestoreEverySlot ==
    LET b == rewindBackup[1]
    IN  /\ card' = [card EXCEPT ![b.deckCardRef] =
                       ObjectAssign(card[b.deckCardRef], b.cardSnapshot)]
        /\ queue' = [i \in DOMAIN queue |-> b.deckCardRef]
        /\ currentIndex' = b.index
        /\ deck' = [deck EXCEPT !.cardsReviewedToday = b.cardsReviewedToday]
        /\ rewindBackup' = <<>>
        /\ ret' = "true"

\* rewind, once an undo record exists.
rewindRestore ==
    LET b == rewindBackup[1]
    IN  /\ card' = [card EXCEPT ![b.deckCardRef] =
                       ObjectAssign(card[b.deckCardRef], b.cardSnapshot)]
        /\ queue' = [queue EXCEPT ![b.index + 1] = b.deckCardRef]
        /\ currentIndex' = b.index
        /\ deck' = [deck EXCEPT !.cardsReviewedToday = b.cardsReviewedToday]
        /\ rewindBackup' = <<>>
        /\ ret' = "true"

rewindStepsBack ==
    IF rewindBackup = <<>>
    THEN /\ ret' = "false"
         /\ currentIndex' = Max(0, currentIndex - 1)
         /\ UNCHANGED <<deck, card, queue, rewindBackup>>
    ELSE rewindRestore

\* rewind(deck), with the value it returns
rewind ==
    IF rewindBackup = <<>>
    THEN /\ ret' = "false"
         /\ UNCHANGED <<deck, card, queue, currentIndex, rewindBackup>>
    ELSE rewindRestore

\* -------------------------------------------------------- session extension
extendSessionByRawAmount(amount) ==
    buildQueue([deck EXCEPT !.sessionExtension =
                    OrDefault(deck.sessionExtension, 0) + amount])

extendSession(amount) ==
    buildQueue([deck EXCEPT !.sessionExtension =
                    OrDefault(deck.sessionExtension, 0) + Max(1, amount)])

\* ---------------------------------------------------------------- dialogs
saveSettingsClearsExtension(mode, limit) ==
    buildQueue([deck EXCEPT !.learningMode = mode,
                            !.dailyLimit = Max(1, Min(500, limit)),
                            !.sessionExtension = 0])

\* saveSettings: the mode and the clamped limit, then buildQueue.
saveSettings(mode, limit) ==
    buildQueue([deck EXCEPT !.learningMode = mode,
                            !.dailyLimit = Max(1, Min(500, limit))])

\* deleteCard(idx): deck.cards.splice(idx, 1); the session is left as it is.
deleteCard(idx) ==
    /\ deck' = [deck EXCEPT !.cards = Splice(deck.cards, idx)]
    /\ UNCHANGED <<card, queue, currentIndex, rewindBackup>>

\* The card objects nothing refers to any more: a new object is one of them.
FreeRefs ==
    Refs \ (Range(deck.cards) \cup Range(queue)
            \cup {rewindBackup[i].deckCardRef : i \in DOMAIN rewindBackup})

\* saveCard: with editingCardIndex set the card at that index gets the new
\* texts, otherwise a new card is pushed; the session is left as it is.
saveCard(editingCardIndex, word, translation) ==
    /\ IF editingCardIndex # NULL
       THEN /\ card' = [card EXCEPT ![deck.cards[editingCardIndex]] =
                           [@ EXCEPT !.word = word, !.translation = translation]]
            /\ UNCHANGED deck
       ELSE \E r \in FreeRefs :
                /\ card' = [card EXCEPT ![r] =
                               [word |-> word, translation |-> translation,
                                sessionStatus |-> "TO_REVIEW", dueDate |-> NULL,
                                interval |-> 1, easeFactor |-> 25000]]
                /\ deck' = [deck EXCEPT !.cards = Append(@, r)]
    /\ UNCHANGED <<queue, currentIndex, rewindBackup>>

\* importCards, for one parsed line: a new card is pushed.
importCards(word, translation) == saveCard(NULL, word, translation)

\* onCardEditorClose: buildQueue on the edited deck.
onCardEditorClose == buildQueue(deck)

\* resetDeckCards leaving the undo record in place.
resetDeckCardsKeepsUndo ==
    /\ card' = [r \in Refs |->
                   IF r \in Range(deck.cards)
                   THEN [card[r] EXCEPT !.sessionStatus = "TO_REVIEW", !.dueDate = NULL,
                                        !.interval = 1, !.easeFactor = 25000]
                   ELSE card[r]]
    /\ LET d1 == checkDayReset([deck EXCEPT !.cardsReviewedToday = 0,
                                            !.sessionExtension = 0,
                                            !.lastSessionDate = NULL], today)
       IN  /\ deck' = d1
           /\ \E p \in Shuffles(Candidates(d1, card', today)) :
                  queue' = Slice(p, Remaining(d1))
    /\ currentIndex' = 0
    /\ UNCHANGED rewindBackup

\* resetDeckCards: every card of the deck back to its initial fields, the
\* daily counters cleared, then buildQueue.
resetDeckCards ==
    /\ card' = [r \in Refs |->
                   IF r \in Range(deck.cards)
                   THEN [card[r] EXCEPT !.sessionStatus = "TO_REVIEW", !.dueDate = NULL,
                                        !.interval = 1, !.easeFactor = 25000]
                   ELSE card[r]]
    /\ LET d1 == checkDayReset([deck EXCEPT !.cardsReviewedToday = 0,
                                            !.sessionExtension = 0,
                                            !.lastSessionDate = NULL], today)
       IN  /\ deck' = d1
           /\ \E p \in Shuffles(Candidates(d1, card', today)) :
                  queue' = Slice(p, Remaining(d1))
    /\ currentIndex' = 0
    /\ rewindBackup' = <<>>

\* openDeck(name): the stored deck, then buildQueue.
openDeck == buildQueue(deck)

\* ------------------------------------------------------------ initial state
\* A card as saveCard, importCards and importDeck create it.
FreshCard(w, t) ==
    [word |-> w, translation |-> t, sessionStatus |-> "TO_REVIEW",
     dueDate |-> NULL, interval |-> 1, easeFactor |-> 25000]

\* A card of an older record: no scheduling fields yet.
BareCard(w, t) ==
    [word |-> w, translation |-> t, sessionStatus |-> "TO_REVIEW",
     dueDate |-> ABSENT, interval |-> ABSENT, easeFactor |-> ABSENT]

AllRefs == [i \in 1..MaxCards |-> i]

\* createEmptyDeck(name), with cards
NewDeck(mode, limit) ==
    [cards |-> AllRefs, learningMode |-> mode, dailyLimit |-> limit,
     lastSessionDate |-> NULL, cardsReviewedToday |-> 0, sessionExtension |-> 0]

\* A deck of an older record: the optional counters are missing.
OldDeck(mode, limit) ==
    [cards |-> AllRefs, learningMode |-> mode, dailyLimit |-> limit,
     lastSessionDate |-> ABSENT, cardsReviewedToday |-> ABSENT,
     sessionExtension |-> ABSENT]

\* The deck names in use: a deck, the name an import gives a second deck of
\* that name, and another deck.
DeckNames == {"A", "A (imported)", "B"}

\* UI.currentDeck being null.
NoDeck == ""

\* The cards' texts: the first card is "a"/"x", the others may repeat it.
Texts == {t \in [Refs -> Translations] : t[1] = "x" /\ t[MaxCards + 1] = "x"}

InitSession ==
    /\ today = 0
    /\ queue = <<>>
    /\ currentIndex = 0
    /\ rewindBackup = <<>>
    /\ lastOp = "other"
    /\ ret = "undefined"
    /\ pre = <<>>
    /\ streak = 0
    /\ rated = 0
    /\ modal = "none"
    /\ appState = "NO_DECK"
    /\ currentDeck = NoDeck
    /\ storage = [n \in DeckNames |-> <<>>]

\* A deck this application created and stored.
Init ==
    /\ InitSession
    /\ \E mode \in Modes, limit \in Limits, w \in [Refs -> Words], t \in Texts :
          /\ deck = NewDeck(mode, limit)
          /\ card = [r \in Refs |-> FreshCard(w[r], t[r])]

\* A deck this application created and stored, its cards' texts fixed: the
\* first card is "a"/"x", every other "a"/"y".
InitPlain ==
    /\ InitSession
    /\ \E mode \in Modes, limit \in Limits :
          /\ deck = NewDeck(mode, limit)
          /\ card = [r \in Refs |-> FreshCard("a", IF r = 1 THEN "x" ELSE "y")]

\* The deck has just been opened on day 0: openDeck has built its queue.
InitOpened ==
    \E mode \in Modes, limit \in Limits :
        LET d == checkDayReset(NewDeck(mode, limit), 0)
            c == [r \in Refs |-> FreshCard("a", IF r = 1 THEN "x" ELSE "y")]
        IN  /\ today = 0
            /\ deck = d
            /\ card = c
            /\ \E p \in Shuffles(Candidates(d, c, 0)) : queue = Slice(p, Remaining(d))
            /\ currentIndex = 0
            /\ rewindBackup = <<>>
            /\ lastOp = "buildQueue"
            /\ ret = "undefined"
            /\ pre = <<>>
            /\ streak = 0
            /\ rated = 0
            /\ modal = "none"
            /\ appState = "NO_DECK"
            /\ currentDeck = NoDeck
            /\ storage = [n \in DeckNames |-> <<>>]

\* JSON.stringify(deck): the deck's fields with the cards by value.
Snapshot(d, heap) == [d EXCEPT !.cards = [i \in DOMAIN d.cards |-> heap[d.cards[i]]]]

\* createEmptyDeck(name)
EmptyDeck ==
    [cards |-> <<>>, learningMode |-> "simple", dailyLimit |-> DEFAULT_DAILY_LIMIT,
     lastSessionDate |-> NULL, cardsReviewedToday |-> 0, sessionExtension |-> 0]

\* The page loaded and nothing opened yet: deck "A" with its cards and a daily
\* limit of 1, and the empty deck "B", are stored.
InitApp ==
    /\ today = 0
    /\ queue = <<>>
    /\ currentIndex = 0
    /\ rewindBackup = <<>>
    /\ lastOp = "other"
    /\ ret = "undefined"
    /\ pre = <<>>
    /\ streak = 0
    /\ rated = 0
    /\ modal = "none"
    /\ appState = "NO_DECK"
    /\ currentDeck = NoDeck
    /\ \E mode \in Modes :
           LET c == [r \in Refs |-> FreshCard("a", IF r = 1 THEN "x" ELSE "y")]
           IN  /\ deck = NewDeck(mode, 1)
               /\ card = c
               /\ storage = [n \in DeckNames |->
                                IF n = "A" THEN <<Snapshot(NewDeck(mode, 1), c)>>
                                ELSE IF n = "B" THEN <<EmptyDeck>>
                                ELSE <<>>]

\* A deck of an older record.
InitOld ==
    /\ InitSession
    /\ \E mode \in Modes, limit \in Limits, w \in [Refs -> Words], t \in Texts :
          /\ deck = OldDeck(mode, limit)
          /\ card = [r \in Refs |-> BareCard(w[r], t[r])]

\* A deck of one card, the card editor about to be used.
InitEditor ==
    /\ InitSession
    /\ \E mode \in Modes, limit \in Limits :
          /\ deck = [NewDeck(mode, limit) EXCEPT !.cards = <<1>>]
          /\ card = [r \in Refs |-> FreshCard("a", "x")]

\* A spaced-mode deck whose first card carries scheduling values of an
\* earlier use.
InitSchedule ==
    /\ InitSession
    /\ \E limit \in Limits, i \in Intervals, e \in Eases :
          /\ deck = NewDeck("spaced", limit)
          /\ card = [r \in Refs |->
                        IF r = 1
                        THEN [FreshCard("a", "x") EXCEPT !.interval = i, !.easeFactor = e]
                        ELSE FreshCard("a", "y")]

\* A simple-mode deck with a daily limit of 2 whose cards, one more than the
\* limit, are all TO_REVIEW; nothing was reviewed or extended yet.
ExampleTexts == {"x", "y", "z"}
InitExample ==
    /\ InitSession
    /\ \E t \in [Refs -> ExampleTexts] :
          /\ deck = [NewDeck("simple", 2) EXCEPT !.cards = [i \in Refs |-> i]]
          /\ card = [r \in Refs |-> FreshCard("a", t[r])]

\* ------------------------------------------------------------------ actions
Matched == currentIndex < Len(queue) /\ FindDeckCard(queue[currentIndex + 1]) # NULL

OpenDeck ==
    /\ openDeck
    /\ lastOp' = "buildQueue" /\ ret' = "undefined" /\ pre' = <<>> /\ streak' = 0
    /\ UNCHANGED <<modal, appState, currentDeck, storage>>
    /\ UNCHANGED <<today, card, rated>>

RateCard ==
    \E rating \in Ratings(deck.learningMode) :
        /\ Matched => rated < MaxRatings
        /\ rated' = IF Matched THEN rated + 1 ELSE rated
        /\ rateCard(rating)
        /\ lastOp' = "rateCard" /\ ret' = "undefined"
        /\ UNCHANGED <<modal, appState, currentDeck, storage>>
        /\ pre' = IF Matched
                  THEN << [card |-> card, currentIndex |-> currentIndex,
                           cardsReviewedToday |-> deck.cardsReviewedToday,
                           ref |-> FindDeckCard(queue[currentIndex + 1]),
                           rating |-> rating] >>
                  ELSE <<>>
        /\ streak' = IF ~Matched THEN 0
                     ELSE IF lastOp = "rateCard" THEN Min(2, streak + 1) ELSE 1
        /\ UNCHANGED today

Rewind ==
    /\ rewind
    /\ lastOp' = "rewind"
    /\ UNCHANGED <<modal, appState, currentDeck, storage>>
    /\ pre' = IF lastOp = "rateCard" THEN pre ELSE <<>>
    /\ streak' = IF lastOp = "rateCard" THEN streak ELSE 0
    /\ UNCHANGED <<today, rated>>

ExtendSession ==
    \E amount \in Amounts :
        /\ OrDefault(deck.sessionExtension, 0) + Max(1, amount) <= MaxExtension
        /\ extendSession(amount)
        /\ lastOp' = "buildQueue" /\ ret' = "undefined" /\ pre' = <<>> /\ streak' = 0
        /\ UNCHANGED <<modal, appState, currentDeck, storage>>
        /\ UNCHANGED <<today, card, rated>>

SaveSettings ==
    \E mode \in Modes, limit \in Limits :
        /\ saveSettings(mode, limit)
        /\ lastOp' = "buildQueue" /\ ret' = "undefined" /\ pre' = <<>> /\ streak' = 0
        /\ UNCHANGED <<modal, appState, currentDeck, storage>>
        /\ UNCHANGED <<today, card, rated>>

DeleteCard ==
    \E idx \in DOMAIN deck.cards :
        /\ deleteCard(idx)
        /\ lastOp' = "other" /\ ret' = "undefined" /\ pre' = <<>> /\ streak' = 0
        /\ UNCHANGED <<modal, appState, currentDeck, storage>>
        /\ UNCHANGED <<today, rated>>

AddCard ==
    \E w \in Words, t \in Translations :
        /\ saveCard(NULL, w, t)
        /\ lastOp' = "other" /\ ret' = "undefined" /\ pre' = <<>> /\ streak' = 0
        /\ UNCHANGED <<modal, appState, currentDeck, storage>>
        /\ UNCHANGED <<today, rated>>

EditCard ==
    \E idx \in DOMAIN deck.cards, w \in Words, t \in Translations :
        /\ saveCard(idx, w, t)
        /\ lastOp' = "other" /\ ret' = "undefined" /\ pre' = <<>> /\ streak' = 0
        /\ UNCHANGED <<modal, appState, currentDeck, storage>>
        /\ UNCHANGED <<today, rated>>

ImportCards ==
    \E w \in Words, t \in Translations :
        /\ importCards(w, t)
        /\ lastOp' = "other" /\ ret' = "undefined" /\ pre' = <<>> /\ streak' = 0
        /\ UNCHANGED <<modal, appState, currentDeck, storage>>
        /\ UNCHANGED <<today, rated>>

CardEditorClose ==
    /\ onCardEditorClose
    /\ lastOp' = "buildQueue" /\ ret' = "undefined" /\ pre' = <<>> /\ streak' = 0
    /\ modal' = "none"
    /\ UNCHANGED <<today, card, rated, appState, currentDeck, storage>>

ResetDeckCards ==
    /\ resetDeckCards
    /\ lastOp' = "resetDeckCards" /\ ret' = "undefined" /\ pre' = <<>> /\ streak' = 0
    /\ UNCHANGED <<modal, appState, currentDeck, storage>>
    /\ UNCHANGED <<today, rated>>

\* The page is drawn.
Render ==
    /\ render
    /\ lastOp' = "render" /\ pre' = <<>> /\ streak' = 0
    /\ UNCHANGED <<modal, appState, currentDeck, storage>>
    /\ UNCHANGED <<today, rated>>

\* Midnight passes: getTodayStr() returns the next day from now on.
AdvanceDay ==
    /\ today < MaxDay
    /\ today' = today + 1
    /\ lastOp' = "other" /\ ret' = "undefined" /\ pre' = <<>> /\ streak' = 0
    /\ UNCHANGED <<modal, appState, currentDeck, storage>>
    /\ UNCHANGED <<deck, card, queue, currentIndex, rewindBackup, rated>>

\* openCardEditor: the card editor dialog opens over the page.
OpenCardEditor ==
    /\ modal = "none"
    /\ modal' = "card-editor"
    /\ lastOp' = "other" /\ ret' = "undefined" /\ pre' = <<>> /\ streak' = 0
    /\ UNCHANGED <<today, deck, card, queue, currentIndex, rewindBackup, rated>>
    /\ UNCHANGED <<appState, currentDeck, storage>>

\* The Escape key: every open dialog is hidden, nothing else runs.
Escape ==
    /\ modal' = "none"
    /\ lastOp' = "other" /\ ret' = "undefined" /\ pre' = <<>> /\ streak' = 0
    /\ UNCHANGED <<today, deck, card, queue, currentIndex, rewindBackup, rated>>
    /\ UNCHANGED <<appState, currentDeck, storage>>

\* The delete button of a card in the list of the open card editor.
DeleteInEditor == modal = "card-editor" /\ DeleteCard

\* One of the two close buttons of the open card editor.
CloseCardEditor == modal = "card-editor" /\ CardEditorClose

\* A deck chosen and a card rated on the page, no dialog in the way.
OpenDeckOnPage == modal = "none" /\ OpenDeck
RateOnPage == modal = "none" /\ RateCard

\* ------------------------------------------------------------ page, storage
session == <<deck, card, queue, currentIndex, rewindBackup>>

\* Config.saveDeck(deck): localStorage after it; a deck without a name is not
\* stored.
saveDeck(name, d, heap) ==
    IF name = NoDeck THEN storage ELSE [storage EXCEPT ![name] = <<Snapshot(d, heap)>>]

\* Config.getDeckNames()
getDeckNames == {n \in DeckNames : storage[n] # <<>>}

\* updateState choosing the card view whenever a deck is loaded.
updateStateIgnoresCompletion ==
    IF currentDeck = NoDeck THEN "NO_DECK" ELSE "SHOW_FRONT"

\* updateState(): the appState it sets.
updateState ==
    IF currentDeck = NoDeck THEN "NO_DECK"
    ELSE IF isComplete THEN "SESSION_COMPLETE"
    ELSE "SHOW_FRONT"

\* JSON.parse of a stored deck: its cards become new objects.
LoadedCards(s) ==
    [r \in Refs |-> IF r <= Len(s.cards) THEN s.cards[r] ELSE FreshCard("a", "x")]
LoadedDeck(s) == [s EXCEPT !.cards = [i \in DOMAIN s.cards |-> i]]

\* UI.openDeck(name): loadDeck, buildQueue, saveDeck, updateState.
uiOpenDeck(name) ==
    IF storage[name] = <<>>
    THEN UNCHANGED <<session, appState, currentDeck, storage>>
    ELSE LET d1 == checkDayReset(LoadedDeck(storage[name][1]), today)
         IN  /\ card' = LoadedCards(storage[name][1])
             /\ deck' = d1
             /\ \E p \in Shuffles(Candidates(d1, card', today)) :
                    queue' = Slice(p, Remaining(d1))
             /\ currentIndex' = 0
             /\ rewindBackup' = <<>>
             /\ currentDeck' = name
             /\ storage' = saveDeck(name, deck', card')
             /\ appState' = updateState'

onShowAnswer ==
    /\ appState' = IF appState = "SHOW_FRONT" THEN "SHOW_BACK" ELSE appState
    /\ UNCHANGED <<session, currentDeck, storage>>

onBackToFront ==
    /\ appState' = IF appState = "SHOW_BACK" THEN "SHOW_FRONT" ELSE appState
    /\ UNCHANGED <<session, currentDeck, storage>>

\* onRate without its test of appState.
onRateInAnyState(rating) ==
    /\ rateCard(rating)
    /\ UNCHANGED currentDeck
    /\ storage' = saveDeck(currentDeck, deck', card')
    /\ appState' = updateState'

\* onRate(rating): nothing unless the answer is shown; rateCard, saveDeck,
\* updateState.
onRate(rating) ==
    IF appState # "SHOW_BACK"
    THEN UNCHANGED <<session, appState, currentDeck, storage>>
    ELSE /\ rateCard(rating)
         /\ UNCHANGED currentDeck
         /\ storage' = saveDeck(currentDeck, deck', card')
         /\ appState' = updateState'

\* onRewind(): nothing without an undo record; rewind, saveDeck, the front of
\* the card.
onRewind ==
    IF ~canRewind
    THEN /\ ret' = "undefined"
         /\ UNCHANGED <<session, appState, currentDeck, storage>>
    ELSE /\ rewind
         /\ UNCHANGED currentDeck
         /\ storage' = saveDeck(currentDeck, deck', card')
         /\ appState' = "SHOW_FRONT"

\* onExtendSession(): nothing without a deck; the amount typed, 5 when it is 0
\* or no number; extendSession, saveDeck, updateState.
onExtendSession(typed) ==
    IF currentDeck = NoDeck
    THEN UNCHANGED <<session, appState, currentDeck, storage>>
    ELSE /\ extendSession(IF typed = 0 THEN 5 ELSE typed)
         /\ UNCHANGED <<card, currentDeck>>
         /\ storage' = saveDeck(currentDeck, deck', card')
         /\ appState' = updateState'

\* handleKeyDown(e), no input focused and no dialog open.
handleKeyDown(key) ==
    IF appState = "SHOW_FRONT" /\ key \in {" ", "Enter"} THEN onShowAnswer
    ELSE IF appState = "SHOW_BACK" /\ deck.learningMode = "simple" /\ key = "1"
    THEN onRate("forgot")
    ELSE IF appState = "SHOW_BACK" /\ deck.learningMode = "simple" /\ key = "2"
    THEN onRate("remembered")
    ELSE IF appState = "SHOW_BACK" /\ deck.learningMode # "simple" /\ key = "1"
    THEN onRate("again")
    ELSE IF appState = "SHOW_BACK" /\ deck.learningMode # "simple" /\ key = "2"
    THEN onRate("hard")
    ELSE IF appState = "SHOW_BACK" /\ deck.learningMode # "simple" /\ key = "3"
    THEN onRate("good")
    ELSE IF appState = "SHOW_BACK" /\ deck.learningMode # "simple" /\ key = "4"
    THEN onRate("easy")
    ELSE UNCHANGED <<session, appState, currentDeck, storage>>

\* deleteSelectedDeck(), confirmed: Config.deleteDeck, and with no current
\* deck name left setCurrentDeck(null) and updateState.
deleteSelectedDeck(selected) ==
    /\ storage' = [storage EXCEPT ![selected] = <<>>]
    /\ currentDeck' = IF currentDeck = selected THEN NoDeck ELSE currentDeck
    /\ appState' = IF currentDeck' = NoDeck THEN updateState' ELSE appState
    /\ UNCHANGED session

\* Config.importDeck(data): the cards and the deck fields with their defaults.
importDeck(data) ==
    [cards |-> [i \in DOMAIN data.cards |->
                   [data.cards[i] EXCEPT
                       !.dueDate = IF Falsy(@) THEN NULL ELSE @,
                       !.interval = IF @ \in {NULL, ABSENT} THEN 1 ELSE @,
                       !.easeFactor = OrDefault(@, 25000)]],
     learningMode |-> data.learningMode,
     dailyLimit |-> OrDefault(data.dailyLimit, DEFAULT_DAILY_LIMIT),
     lastSessionDate |-> IF Falsy(data.lastSessionDate) THEN NULL ELSE data.lastSessionDate,
     cardsReviewedToday |-> OrDefault(data.cardsReviewedToday, 0),
     sessionExtension |-> OrDefault(data.sessionExtension, 0)]

\* The name an import stores under: the name itself, or with " (imported)"
\* added when a deck of that name is stored.
ImportName(name) ==
    IF name \in getDeckNames THEN name \o " (imported)" ELSE name

\* handleDeckImportFile, for a JSON file that parses and has a name and cards.
handleDeckImportFile(name, data) ==
    /\ storage' = [storage EXCEPT ![ImportName(name)] = <<importDeck(data)>>]
    /\ UNCHANGED <<session, appState, currentDeck>>

\* handleDeckImportTxtFile, for a file named name.txt with valid lines.
handleDeckImportTxtFile(name, cards) ==
    /\ storage' = [storage EXCEPT ![ImportName(name)] =
                      <<[EmptyDeck EXCEPT !.cards = cards]>>]
    /\ UNCHANGED <<session, appState, currentDeck>>

\* Dialogs.saveSettings with a deck loaded: the two fields set, saveDeck, then
\* buildQueue and updateState.
pageSaveSettings(mode, limit) ==
    /\ saveSettings(mode, limit)
    /\ UNCHANGED <<card, currentDeck>>
    /\ storage' = saveDeck(currentDeck,
                           [deck EXCEPT !.learningMode = mode,
                                        !.dailyLimit = Max(1, Min(500, limit))], card)
    /\ appState' = updateState'

\* Dialogs.resetDeckCards with a deck loaded: nothing unless confirm() is
\* answered with yes; the cards and counters reset, saveDeck, then buildQueue
\* and updateState.
pageResetDeckCards(confirmed) ==
    IF ~confirmed
    THEN UNCHANGED <<session, appState, currentDeck, storage>>
    ELSE /\ resetDeckCards
         /\ UNCHANGED currentDeck
         /\ storage' = saveDeck(currentDeck,
                                [deck EXCEPT !.cardsReviewedToday = 0,
                                             !.sessionExtension = 0,
                                             !.lastSessionDate = NULL], card')
         /\ appState' = updateState'

\* Dialogs.onCardEditorClose with a deck loaded: saveDeck, then buildQueue and
\* updateState.
pageCardEditorClose ==
    /\ onCardEditorClose
    /\ UNCHANGED <<card, currentDeck>>
    /\ storage' = saveDeck(currentDeck, deck, card)
    /\ appState' = updateState'

\* Dialogs.saveCard, deleteCard and importCards: the change, then saveDeck.
pageSaveCard(editingCardIndex, word, translation) ==
    /\ saveCard(editingCardIndex, word, translation)
    /\ storage' = saveDeck(currentDeck, deck', card')
    /\ UNCHANGED <<appState, currentDeck>>

pageDeleteCard(idx) ==
    /\ deleteCard(idx)
    /\ storage' = saveDeck(currentDeck, deck', card')
    /\ UNCHANGED <<appState, currentDeck>>

pageImportCards(word, translation) ==
    /\ importCards(word, translation)
    /\ storage' = saveDeck(currentDeck, deck', card')
    /\ UNCHANGED <<appState, currentDeck>>

\* The page's handlers, a button pressed or a key typed whatever is on show.
Keys == {" ", "1", "3"}

\* Whether a key typed now reaches onRate.
KeyRates(key) ==
    /\ appState = "SHOW_BACK"
    /\ key \in (IF deck.learningMode = "simple" THEN {"1", "2"} ELSE {"1", "2", "3", "4"})

Rates(effective) ==
    /\ (effective /\ Matched) => rated < MaxRatings
    /\ rated' = IF effective /\ Matched THEN rated + 1 ELSE rated

OpenSelectedDeck ==
    \E name \in getDeckNames :
        /\ uiOpenDeck(name)
        /\ lastOp' = "buildQueue" /\ ret' = "undefined" /\ pre' = <<>> /\ streak' = 0
        /\ UNCHANGED <<today, rated, modal>>

OnShowAnswer ==
    /\ onShowAnswer
    /\ lastOp' = "onShowAnswer" /\ ret' = "undefined" /\ pre' = <<>> /\ streak' = 0
    /\ UNCHANGED <<today, rated, modal>>

OnBackToFront ==
    /\ onBackToFront
    /\ lastOp' = "other" /\ ret' = "undefined" /\ pre' = <<>> /\ streak' = 0
    /\ UNCHANGED <<today, rated, modal>>

OnRate ==
    \E rating \in Ratings(deck.learningMode) :
        /\ Rates(appState = "SHOW_BACK")
        /\ onRate(rating)
        /\ lastOp' = "onRate" /\ ret' = "undefined" /\ pre' = <<>> /\ streak' = 0
        /\ UNCHANGED <<today, modal>>

\* The undo button is part of the card view; its handler tests only
\* canRewind, so it is taken to be within reach whenever a deck is loaded.
OnRewind ==
    /\ currentDeck # NoDeck
    /\ onRewind
    /\ lastOp' = "rewind" /\ pre' = <<>> /\ streak' = 0
    /\ UNCHANGED <<today, rated, modal>>

\* "Study More Cards", on show once the session has ended.
OnExtendSession ==
    \E typed \in Amounts :
        /\ appState = "SESSION_COMPLETE"
        /\ OrDefault(deck.sessionExtension, 0)
               + Max(1, IF typed = 0 THEN 5 ELSE typed) <= MaxExtension
        /\ onExtendSession(typed)
        /\ lastOp' = "buildQueue" /\ ret' = "undefined" /\ pre' = <<>> /\ streak' = 0
        /\ UNCHANGED <<today, rated, modal>>

HandleKeyDown ==
    \E key \in Keys :
        /\ Rates(KeyRates(key))
        /\ handleKeyDown(key)
        /\ lastOp' = (IF appState = "SHOW_FRONT" /\ key \in {" ", "Enter"}
                      THEN "onShowAnswer"
                      ELSE IF KeyRates(key) THEN "onRate" ELSE "other")
        /\ ret' = "undefined" /\ pre' = <<>> /\ streak' = 0
        /\ UNCHANGED <<today, modal>>

DeleteSelectedDeck ==
    \E selected \in getDeckNames :
        /\ deleteSelectedDeck(selected)
        /\ lastOp' = "other" /\ ret' = "undefined" /\ pre' = <<>> /\ streak' = 0
        /\ UNCHANGED <<today, rated, modal>>

\* The decks a JSON file may hold, written by this application or an older
\* one, and the names of the files imported.
JsonDecks ==
    {[cards |-> <<FreshCard("a", "x")>>, learningMode |-> "spaced", dailyLimit |-> 2,
      lastSessionDate |-> 0, cardsReviewedToday |-> 1, sessionExtension |-> 0],
     [cards |-> <<BareCard("a", "y")>>, learningMode |-> "simple", dailyLimit |-> ABSENT,
      lastSessionDate |-> ABSENT, cardsReviewedToday |-> ABSENT,
      sessionExtension |-> ABSENT]}
TxtCards == {<<FreshCard("a", "x")>>, <<FreshCard("a", "x"), FreshCard("a", "y")>>}
ImportedNames == {"A", "B"}

HandleDeckImportFile ==
    \E name \in ImportedNames, data \in JsonDecks :
        /\ ImportName(name) \in DeckNames
        /\ handleDeckImportFile(name, data)
        /\ lastOp' = "importDeck" /\ ret' = "undefined" /\ pre' = <<>> /\ streak' = 0
        /\ UNCHANGED <<today, rated, modal>>

HandleDeckImportTxtFile ==
    \E name \in ImportedNames, cards \in TxtCards :
        /\ ImportName(name) \in DeckNames
        /\ handleDeckImportTxtFile(name, cards)
        /\ lastOp' = "importDeck" /\ ret' = "undefined" /\ pre' = <<>> /\ streak' = 0
        /\ UNCHANGED <<today, rated, modal>>

\* The deck manager: decks imported, opened and deleted.
NextImport ==
    \/ OpenSelectedDeck
    \/ DeleteSelectedDeck
    \/ HandleDeckImportFile
    \/ HandleDeckImportTxtFile

\* The dialogs' handlers on the loaded deck.
SettingsSaved ==
    \E mode \in Modes, limit \in Limits :
        /\ currentDeck # NoDeck
        /\ pageSaveSettings(mode, limit)
        /\ lastOp' = "buildQueue" /\ ret' = "undefined" /\ pre' = <<>> /\ streak' = 0
        /\ UNCHANGED <<today, rated, modal>>

CardsReset ==
    \E confirmed \in BOOLEAN :
        /\ currentDeck # NoDeck
        /\ pageResetDeckCards(confirmed)
        /\ lastOp' = (IF confirmed THEN "resetDeckCards" ELSE "resetDeclined")
        /\ ret' = "undefined" /\ pre' = <<>> /\ streak' = 0
        /\ UNCHANGED <<today, rated, modal>>

EditorClosed ==
    /\ currentDeck # NoDeck
    /\ pageCardEditorClose
    /\ lastOp' = "buildQueue" /\ ret' = "undefined" /\ pre' = <<>> /\ streak' = 0
    /\ UNCHANGED <<today, rated, modal>>

CardAdded ==
    \E w \in Words, t \in Translations :
        /\ currentDeck # NoDeck
        /\ pageSaveCard(NULL, w, t)
        /\ lastOp' = "other" /\ ret' = "undefined" /\ pre' = <<>> /\ streak' = 0
        /\ UNCHANGED <<today, rated, modal>>

CardEdited ==
    \E idx \in DOMAIN deck.cards, w \in Words, t \in Translations :
        /\ currentDeck # NoDeck
        /\ pageSaveCard(idx, w, t)
        /\ lastOp' = "other" /\ ret' = "undefined" /\ pre' = <<>> /\ streak' = 0
        /\ UNCHANGED <<today, rated, modal>>

CardDeleted ==
    \E idx \in DOMAIN deck.cards :
        /\ currentDeck # NoDeck
        /\ pageDeleteCard(idx)
        /\ lastOp' = "other" /\ ret' = "undefined" /\ pre' = <<>> /\ streak' = 0
        /\ UNCHANGED <<today, rated, modal>>

CardsImported ==
    \E w \in Words, t \in Translations :
        /\ currentDeck # NoDeck
        /\ pageImportCards(w, t)
        /\ lastOp' = "other" /\ ret' = "undefined" /\ pre' = <<>> /\ streak' = 0
        /\ UNCHANGED <<today, rated, modal>>

\* The handlers that change the loaded deck and rebuild or move the queue.
NextSave ==
    \/ OpenSelectedDeck
    \/ OnShowAnswer
    \/ OnRate
    \/ OnRewind
    \/ SettingsSaved
    \/ CardsReset
    \/ EditorClosed

\* The settings dialog during a session: settings saved, cards reset.
NextSettings ==
    \/ OpenSelectedDeck
    \/ OnShowAnswer
    \/ OnRate
    \/ SettingsSaved
    \/ CardsReset

\* The card editor at work on the loaded deck, days passing.
NextEditSave ==
    \/ OpenSelectedDeck
    \/ CardAdded
    \/ CardEdited
    \/ CardDeleted
    \/ CardsImported
    \/ EditorClosed
    \/ AdvanceDay

\* The page in use: decks opened and deleted, answers shown, cards rated by
\* button and by key, ratings undone, the session extended.
NextUI ==
    \/ OpenSelectedDeck
    \/ OnShowAnswer
    \/ OnBackToFront
    \/ OnRate
    \/ OnRewind
    \/ OnExtendSession
    \/ HandleKeyDown
    \/ DeleteSelectedDeck

\* The session's operations and the settings dialog, within one day.
Next ==
    \/ OpenDeck
    \/ RateCard
    \/ Rewind
    \/ ExtendSession
    \/ SaveSettings

\* Rating and reopening over several days, the settings left alone.
NextDay ==
    \/ OpenDeck
    \/ RateCard
    \/ Rewind
    \/ AdvanceDay

\* Rating, undo and reopening over several days, the page drawn in between.
NextView ==
    \/ OpenDeck
    \/ RateCard
    \/ Rewind
    \/ AdvanceDay
    \/ Render

\* Every way to a first queue of a stored deck, and rating it.
NextLegacy ==
    \/ OpenDeck
    \/ RateCard
    \/ ExtendSession
    \/ SaveSettings

\* A session with the card editor opened, used to delete cards, and closed
\* by its buttons or the Escape key.
NextEditor ==
    \/ OpenDeckOnPage
    \/ RateOnPage
    \/ OpenCardEditor
    \/ DeleteInEditor
    \/ CloseCardEditor
    \/ Escape

\* An open deck left on the page over midnight: ratings and extensions, the
\* deck never reopened.
NextOvernight ==
    \/ RateCard
    \/ ExtendSession
    \/ AdvanceDay

\* A sitting: the queue rated to its end, cards deleted from the deck on the
\* way, no undo and no rebuild.
NextSitting ==
    \/ RateCard
    \/ DeleteCard

\* Opening a deck and rating its queue.
NextExample ==
    \/ OpenDeck
    \/ RateCard

\* Rating, undo, reopening and extending the session within one day.
NextExtend ==
    \/ OpenDeck
    \/ RateCard
    \/ Rewind
    \/ ExtendSession

\* Rating and extending the session over several days, without undo.
NextMidnight ==
    \/ OpenDeck
    \/ RateCard
    \/ ExtendSession
    \/ AdvanceDay

\* The session's operations and everything that rebuilds the queue.
NextReset ==
    \/ OpenDeck
    \/ RateCard
    \/ Rewind
    \/ ExtendSession
    \/ SaveSettings
    \/ CardEditorClose
    \/ ResetDeckCards

\* The session's operations with the card editor deleting cards while a
\* queue is in use.
NextEdit ==
    \/ OpenDeck
    \/ RateCard
    \/ Rewind
    \/ DeleteCard

\* The card editor and the card reset at work during a session.
NextCards ==
    \/ OpenDeck
    \/ RateCard
    \/ Rewind
    \/ ExtendSession
    \/ AddCard
    \/ EditCard
    \/ ImportCards
    \/ DeleteCard
    \/ CardEditorClose
    \/ ResetDeckCards

\* Everything together.
NextAll ==
    \/ OpenDeck
    \/ RateCard
    \/ Rewind
    \/ ExtendSession
    \/ SaveSettings
    \/ DeleteCard
    \/ AdvanceDay

Spec == Init /\ [][Next]_vars
SpecDay == Init /\ [][NextDay]_vars
SpecExample == InitExample /\ [][NextExample]_vars
SpecView == Init /\ [][NextView]_vars
SpecLegacy == InitOld /\ [][NextLegacy]_vars
SpecEditor == Init /\ [][NextEditor]_vars
SpecOvernight == InitOpened /\ [][NextOvernight]_vars
SpecExtend == InitPlain /\ [][NextExtend]_vars
SpecMidnight == InitPlain /\ [][NextMidnight]_vars
SpecReset == InitPlain /\ [][NextReset]_vars
SpecSchedule == InitSchedule /\ [][NextDay]_vars
SpecEdit == Init /\ [][NextEdit]_vars
SpecCards == InitEditor /\ [][NextCards]_vars
SpecOld == InitOld /\ [][Next]_vars
SpecAll == (Init \/ InitOld) /\ [][NextAll]_vars
SpecUI == InitApp /\ [][NextUI]_vars
SpecImport == InitApp /\ [][NextImport]_vars
SpecSave == InitApp /\ [][NextSave]_vars
SpecSettings == InitApp /\ [][NextSettings]_vars
\* A click on a rating button is always handled: rateCard is taken whenever it
\* stays possible.
SpecSitting == InitOpened /\ [][NextSitting]_vars /\ WF_vars(RateCard)
SpecEditSave == InitApp /\ [][NextEditSave]_vars

\* ================================================================== claims
JustBuilt == lastOp \in {"buildQueue", "resetDeckCards"}
Reviewed == deck.cardsReviewedToday
Allowance == deck.dailyLimit + deck.sessionExtension
DeckRefs == Range(deck.cards)

\* ---- C1
WithinAllowance == Reviewed <= Allowance

\* C1 as stated: in every reachable state cardsReviewedToday is at most
\* dailyLimit + sessionExtension.
C1_NeverExceedsAllowance == WithinAllowance

\* C1 amended: cardsReviewedToday <= dailyLimit + sessionExtension holds at the
\* start and every operation keeps it, except a settings save that lowers
\* dailyLimit.
C1_KeptUnlessLimitLowered ==
    /\ WithinAllowance
    /\ [][(WithinAllowance /\ deck'.dailyLimit >= deck.dailyLimit) => WithinAllowance']_vars

\* A rating has used up the whole allowance, extension included.
C1_Witness ==
    /\ lastOp = "rateCard"
    /\ deck.sessionExtension > 0
    /\ Reviewed = Allowance

\* ---- C2
EligibleNow(r) ==
    IF deck.learningMode = "spaced"
    THEN card[r].dueDate \in {NULL, ABSENT} \/ card[r].dueDate <= today
    ELSE card[r].sessionStatus # "FINISHED"

NumEligible == Cardinality({i \in DOMAIN deck.cards : EligibleNow(deck.cards[i])})
RemainingNow == Max(0, Allowance - Reviewed)

\* C2: right after buildQueue the queue has min(remaining, eligible cards)
\* entries, remaining = max(0, dailyLimit + sessionExtension -
\* cardsReviewedToday) after the day reset, and they are distinct cards of the
\* deck.
C2_QueueLength ==
    JustBuilt =>
        /\ Len(queue) = Min(RemainingNow, NumEligible)
        /\ \A i \in DOMAIN queue : queue[i] \in DeckRefs
        /\ \A i, j \in DOMAIN queue : i # j => queue[i] # queue[j]

\* The cap binds: more cards are eligible than the allowance has left.
C2_Witness ==
    /\ JustBuilt
    /\ Reviewed > 0
    /\ Len(queue) > 0
    /\ NumEligible > Len(queue)

\* ---- C3
\* C3: right after buildQueue in spaced mode every queued card has no dueDate
\* or a dueDate that is not after today.
C3_SpacedQueueIsDue ==
    (JustBuilt /\ deck.learningMode = "spaced") =>
        \A i \in DOMAIN queue :
            card[queue[i]].dueDate \in {NULL, ABSENT} \/ card[queue[i]].dueDate <= today

\* A queue was built in spaced mode while a card of the deck is due later, and
\* one that was scheduled earlier has come due.
C3_Witness ==
    /\ JustBuilt
    /\ deck.learningMode = "spaced"
    /\ \E r \in DeckRefs : card[r].dueDate > today
    /\ \E i \in DOMAIN queue : card[queue[i]].dueDate \in 0..today

\* ---- C4
\* C4: right after buildQueue in simple mode no queued card is FINISHED, and a
\* card left in status SPACED is a candidate whatever its dueDate: when the
\* allowance covers all the unfinished cards, every SPACED card is queued.
C4_SimpleQueue ==
    (JustBuilt /\ deck.learningMode = "simple") =>
        /\ \A i \in DOMAIN queue : card[queue[i]].sessionStatus # "FINISHED"
        /\ NumEligible <= RemainingNow =>
               \A r \in DeckRefs :
                   card[r].sessionStatus = "SPACED" => r \in Range(queue)

\* A simple-mode queue holds a SPACED card that is due after today.
C4_Witness ==
    /\ JustBuilt
    /\ deck.learningMode = "simple"
    /\ \E i \in DOMAIN queue :
           /\ card[queue[i]].sessionStatus = "SPACED"
           /\ card[queue[i]].dueDate > today
    /\ \E r \in DeckRefs : card[r].sessionStatus = "FINISHED"


\* ---- C5
RewoundRating == lastOp = "rewind" /\ pre # <<>>

\* C5: a rating of the current card followed at once by rewind returns true
\* and leaves every field of the rated card, the cursor and
\* cardsReviewedToday as they were before the rating, with no undo pending.
C5_RateThenRewindRestores ==
    RewoundRating =>
        /\ ret = "true"
        /\ \A f \in CardFields : card[pre[1].ref][f] = pre[1].card[pre[1].ref][f]
        /\ currentIndex = pre[1].currentIndex
        /\ Reviewed = pre[1].cardsReviewedToday
        /\ ~canRewind

\* ---- C6
\* C6: after two ratings in a row, rewind undoes the second one only: the
\* second card, the cursor and cardsReviewedToday are as they were before the
\* second rating, every other card (the first one as rated) is untouched, and
\* no undo is left for a second rewind.
C6_OnlyLastRatingUndone ==
    (RewoundRating /\ streak = 2) =>
        /\ ret = "true"
        /\ card = pre[1].card
        /\ currentIndex = pre[1].currentIndex
        /\ currentIndex > 0
        /\ Reviewed = pre[1].cardsReviewedToday
        /\ Reviewed > 0
        /\ rewindBackup = <<>>

\* ---- C7
Session == <<deck, card, queue, currentIndex, rewindBackup>>

\* C7: rewind with no undo record pending returns false and leaves the queue,
\* the cursor, every card and cardsReviewedToday as they are.
C7_RewindWithoutRecord ==
    [][(lastOp' = "rewind" /\ rewindBackup = <<>>) =>
           (ret' = "false" /\ UNCHANGED Session)]_vars

\* A rewind failed in the middle of a queue, right after another rewind.
C7_Witness ==
    /\ lastOp = "rewind"
    /\ ret = "false"
    /\ currentIndex < Len(queue)
    /\ Reviewed > 0

\* ---- C8
\* C8: rateCard on a complete session (the cursor at or past the end of the
\* queue, an empty queue included) changes no card, counter, cursor or undo
\* record.
C8_RateWhenComplete ==
    [][(lastOp' = "rateCard" /\ currentIndex >= Len(queue)) => UNCHANGED Session]_vars

\* A rating arrived after the last card of a queue had been rated.
C8_Witness ==
    /\ lastOp = "rateCard"
    /\ pre = <<>>
    /\ Len(queue) > 0
    /\ currentIndex = Len(queue)
    /\ canRewind

\* ---- C9
SameTexts(r, q) == card[r].word = card[q].word /\ card[r].translation = card[q].translation
Stale(q) == \A r \in DeckRefs : r # q /\ ~SameTexts(r, q)

\* C9: when the current queue entry matches no card of the deck, by identity
\* or by word and translation, rateCard moves the cursor on by one and changes
\* no card and no field of the deck.
C9_StaleEntrySkipped ==
    [][(lastOp' = "rateCard" /\ currentIndex < Len(queue) /\ Stale(queue[currentIndex + 1])) =>
           (currentIndex' = currentIndex + 1 /\ UNCHANGED <<card, deck, queue>>)]_vars

\* A deleted card's entry was skipped while a card with the same word but
\* another translation is still in the deck.
C9_Witness ==
    /\ lastOp = "rateCard"
    /\ pre = <<>>
    /\ currentIndex > 0
    /\ Stale(queue[currentIndex])
    /\ \E r \in DeckRefs : card[r].word = card[queue[currentIndex]].word

\* ---- C10
\* C10: when the current queue entry is itself a card of the deck, rateCard
\* rates that very card and changes no other card, also when another card has
\* the same word and translation.
C10_IdentityFirst ==
    [][(lastOp' = "rateCard" /\ currentIndex < Len(queue)
            /\ queue[currentIndex + 1] \in DeckRefs) =>
           /\ rewindBackup'[1].deckCardRef = queue[currentIndex + 1]
           /\ \A r \in Refs \ {queue[currentIndex + 1]} : card'[r] = card[r]]_vars

\* ---- C11
JustRated == lastOp = "rateCard" /\ pre # <<>>

\* C11: a rating of a current entry that matches a deck card adds one to
\* cardsReviewedToday and one to the cursor, and leaves an undo record that
\* holds the matched card's fields, the cursor and cardsReviewedToday as they
\* were before the rating, whatever record was pending before.
C11_RatingRecorded ==
    JustRated =>
        /\ Reviewed = pre[1].cardsReviewedToday + 1
        /\ currentIndex = pre[1].currentIndex + 1
        /\ canRewind
        /\ rewindBackup = << [index |-> pre[1].currentIndex,
                              cardSnapshot |-> pre[1].card[pre[1].ref],
                              deckCardRef |-> pre[1].ref,
                              cardsReviewedToday |-> pre[1].cardsReviewedToday] >>

\* A second rating in a row has replaced the record of the first.
C11_Witness ==
    /\ JustRated
    /\ streak = 2
    /\ rewindBackup[1].index = 1
    /\ rewindBackup[1].cardsReviewedToday = 1

\* ---- C12
\* C12: a queue build on a deck whose lastSessionDate is not today leaves
\* lastSessionDate = today, cardsReviewedToday = 0 and sessionExtension = 0,
\* and a queue capped by dailyLimit alone; a build on a deck whose
\* lastSessionDate is today keeps lastSessionDate and cardsReviewedToday and
\* does not reset sessionExtension.
C12_DayReset ==
    [][lastOp' = "buildQueue" =>
           IF deck.lastSessionDate # today
           THEN /\ deck'.lastSessionDate = today
                /\ deck'.cardsReviewedToday = 0
                /\ deck'.sessionExtension = 0
                /\ Len(queue') = Min(deck'.dailyLimit, NumEligible')
           ELSE /\ deck'.lastSessionDate = deck.lastSessionDate
                /\ deck'.cardsReviewedToday = deck.cardsReviewedToday
                /\ deck'.sessionExtension >= deck.sessionExtension]_vars

\* A build on a later day has reset the counter of the ratings made before.
C12_Witness ==
    /\ JustBuilt
    /\ today > 0
    /\ deck.lastSessionDate = today
    /\ rated > 0
    /\ Reviewed = 0
    /\ Len(queue) > 0

\* ---- C13
ZeroedExtension == deck.sessionExtension # 0 /\ deck'.sessionExtension = 0
ZeroedReviewed == deck.cardsReviewedToday # 0 /\ deck'.cardsReviewedToday = 0
DayResetStep == lastOp' = "buildQueue" /\ deck.lastSessionDate # today
RewindRestoresZero ==
    /\ lastOp' = "rewind"
    /\ rewindBackup # <<>>
    /\ rewindBackup[1].cardsReviewedToday = 0

\* C13 as stated: sessionExtension goes to 0 only in the day reset of a queue
\* build, and cardsReviewedToday goes to 0 only there or in a rewind that
\* restores a saved 0.
C13_OnlyDayResetClears ==
    [][/\ ZeroedExtension => DayResetStep
       /\ ZeroedReviewed => (DayResetStep \/ RewindRestoresZero)]_vars

\* C13 amended: the same, except that resetDeckCards clears both counters
\* too.
C13_OnlyDayResetOrCardResetClears ==
    [][/\ ZeroedExtension => (DayResetStep \/ lastOp' = "resetDeckCards")
       /\ ZeroedReviewed =>
              (DayResetStep \/ RewindRestoresZero \/ lastOp' = "resetDeckCards")]_vars

\* The cards were reset after ratings and an extension of the same day, and
\* both counters are 0 again.
C13_Witness ==
    /\ lastOp = "resetDeckCards"
    /\ rated = MaxRatings
    /\ deck.lastSessionDate = today
    /\ Reviewed = 0
    /\ deck.sessionExtension = 0
    /\ \A r \in DeckRefs : card[r].sessionStatus = "TO_REVIEW"

\* ---- C14
ExtendedBy(amount) == extendSession(amount) /\ lastOp' = "buildQueue"

C15_BuildClearsUndo ==
    /\ [](JustBuilt => (currentIndex = 0 /\ rewindBackup = <<>> /\ ~canRewind))
    /\ [][(JustBuilt /\ lastOp' = "rewind") => (ret' = "false" /\ UNCHANGED Session)]_vars

\* A rewind failed at the start of a queue that was built after a rating of
\* the same day.
C15_Witness ==
    /\ lastOp = "rewind"
    /\ ret = "false"
    /\ currentIndex = 0
    /\ Len(queue) > 0
    /\ Reviewed > 0

\* ---- C16
SchedulingFields == {"dueDate", "interval", "easeFactor"}

\* C16: in simple mode a rating with 'remembered' leaves the rated card
\* FINISHED, a rating with 'forgot' leaves its sessionStatus as it was, so a
\* card that was a candidate of a simple-mode build still is one; dueDate,
\* interval and easeFactor of the rated card and every other card are as
\* before.
C16_SimpleRating ==
    (JustRated /\ deck.learningMode = "simple") =>
        LET r == pre[1].ref
            before == pre[1].card
        IN  /\ pre[1].rating = "remembered" => card[r].sessionStatus = "FINISHED"
            /\ pre[1].rating = "forgot" =>
                   /\ card[r].sessionStatus = before[r].sessionStatus
                   /\ SimpleCandidate(before[r]) => SimpleCandidate(card[r])
            /\ \A f \in CardFields \ {"sessionStatus"} : card[r][f] = before[r][f]
            /\ \A o \in Refs \ {r} : card[o] = before[o]

\* A card left SPACED and due later was rated 'forgot' in simple mode.
C16_Witness ==
    /\ JustRated
    /\ deck.learningMode = "simple"
    /\ pre[1].rating = "forgot"
    /\ card[pre[1].ref].sessionStatus = "SPACED"
    /\ card[pre[1].ref].dueDate > today
    /\ \E o \in DeckRefs : card[o].sessionStatus = "TO_REVIEW"

\* ---- C17
JustSpaced == JustRated /\ deck.learningMode = "spaced"

\* The pre-rating interval and ease of the rated card, the defaults for
\* missing ones; ease in units of 1/10000.
IntervalBefore ==
    LET v == pre[1].card[pre[1].ref].interval IN IF v = ABSENT THEN 1 ELSE v
EaseBefore ==
    LET v == pre[1].card[pre[1].ref].easeFactor IN IF v = ABSENT THEN 25000 ELSE v

\* n is num/den rounded to the nearest integer, a half going up.
IsRound(n, num, den) == 2 * den * n - den <= 2 * num /\ 2 * num < 2 * den * n + den
RoundOf(num, den) == CHOOSE n \in 0..(num \div den + 1) : IsRound(n, num, den)

\* C17: a spaced-mode rating leaves the rated card SPACED, with interval 1
\* and dueDate today for 'again', interval max(1, round(1.2 i)) for 'hard',
\* max(1, round(i e)) for 'good', max(1, round(1.3 i e)) for 'easy', and
\* dueDate = today + the new interval for these three, i and e being the
\* card's interval and ease before the rating (1 and 2.5 when missing).
C17_SpacedIntervals ==
    JustSpaced =>
        LET c == card[pre[1].ref]
            i == IntervalBefore
            e == EaseBefore
            expected ==
                CASE pre[1].rating = "again" -> 1
                  [] pre[1].rating = "hard" -> Max(1, RoundOf(12 * i, 10))
                  [] pre[1].rating = "good" -> Max(1, RoundOf(i * e, 10000))
                  [] pre[1].rating = "easy" -> Max(1, RoundOf(13 * i * e, 100000))
        IN  /\ c.sessionStatus = "SPACED"
            /\ c.interval = expected
            /\ c.dueDate = IF pre[1].rating = "again" THEN today ELSE today + expected

\* A card with interval 5 and ease 2.4996 was rated 'good' on a later day.
C17_Witness ==
    /\ JustSpaced
    /\ today > 0
    /\ pre[1].rating = "good"
    /\ IntervalBefore = 5
    /\ EaseBefore = 24996
    /\ card[pre[1].ref].interval = 12

\* ---- C18
\* s is x rounded to three decimals, x and s in units of 1/10000.
IsRounded3(s, x) == s % 10 = 0 /\ 2 * s - 10 <= 2 * x /\ 2 * x < 2 * s + 10

\* C18: a spaced-mode rating stores max(1.3, e - 0.2) for 'again',
\* max(1.3, e - 0.15) for 'hard', e for 'good' and e + 0.15 for 'easy',
\* rounded to three decimals; and every card that has an easeFactor has one
\* of at least 1.3, every card that has an interval one of at least 1, after
\* any ratings and undos.
C18_EaseFloorAndRounding ==
    /\ JustSpaced =>
           LET e == EaseBefore
               x == CASE pre[1].rating = "again" -> Max(13000, e - 2000)
                      [] pre[1].rating = "hard" -> Max(13000, e - 1500)
                      [] pre[1].rating = "good" -> e
                      [] pre[1].rating = "easy" -> e + 1500
           IN  IsRounded3(card[pre[1].ref].easeFactor, x)
    /\ \A r \in Refs :
           /\ card[r].easeFactor # ABSENT => card[r].easeFactor >= 13000
           /\ card[r].interval # ABSENT => card[r].interval >= 1

\* After a rating and its undo, a rating with 'hard' of a card of ease 1.4
\* met the floor of 1.3.
C18_Witness ==
    /\ JustSpaced
    /\ pre[1].rating = "hard"
    /\ EaseBefore = 14000
    /\ card[pre[1].ref].easeFactor = 13000
    /\ today = 0
    /\ rated = 2
    /\ Reviewed = 1

\* ---- C19
FromDefaults ==
    /\ JustSpaced
    /\ pre[1].card[pre[1].ref].interval = 1
    /\ pre[1].card[pre[1].ref].easeFactor = 25000

\* C19: from interval 1 and easeFactor 2.5, 'good' gives interval 3, dueDate
\* today + 3 and easeFactor 2.5; 'again' gives interval 1, easeFactor 2.3 and
\* dueDate today.
C19_GoodAndAgainFromDefaults ==
    /\ (FromDefaults /\ pre[1].rating = "good") =>
           /\ card[pre[1].ref].interval = 3
           /\ card[pre[1].ref].dueDate = today + 3
           /\ card[pre[1].ref].easeFactor = 25000
    /\ (FromDefaults /\ pre[1].rating = "again") =>
           /\ card[pre[1].ref].interval = 1
           /\ card[pre[1].ref].easeFactor = 23000
           /\ card[pre[1].ref].dueDate = today

\* One card was rated 'again' from the defaults, then another 'good'.
C19_Witness ==
    /\ FromDefaults
    /\ pre[1].rating = "good"
    /\ \E r \in Refs \ {pre[1].ref} :
           /\ card[r].easeFactor = 23000
           /\ card[r].interval = 1
           /\ card[r].dueDate = today

\* ---- C20
\* C20 as stated: from interval 1 and easeFactor 2.5, 'easy' gives interval 4
\* and easeFactor 2.65.
C20_EasyGivesFour ==
    (FromDefaults /\ pre[1].rating = "easy") =>
        /\ card[pre[1].ref].interval = 4
        /\ card[pre[1].ref].easeFactor = 26500

\* C20 amended: from interval 1 and easeFactor 2.5, 'easy' gives interval 3
\* (3.25 rounded) and easeFactor 2.65.
C20_EasyGivesThree ==
    (FromDefaults /\ pre[1].rating = "easy") =>
        /\ card[pre[1].ref].interval = 3
        /\ card[pre[1].ref].dueDate = today + 3
        /\ card[pre[1].ref].easeFactor = 26500

\* A card at the defaults was rated 'easy'.
C20_Witness ==
    /\ FromDefaults
    /\ pre[1].rating = "easy"
    /\ card[pre[1].ref].sessionStatus = "SPACED"

\* The deck's counts as the status bar shows them now.
Stats == getDeckStats(deck, card, today)

\* Two ratings in a row since the deck was opened, both 'remembered'.
BothRemembered ==
    /\ JustRated
    /\ streak = 2
    /\ pre[1].rating = "remembered"
    /\ pre[1].cardsReviewedToday = 1
    /\ \E r \in Refs : pre[1].card[r].sessionStatus = "FINISHED"

\* C21: in a simple-mode deck with a daily limit of 2, nothing reviewed or
\* extended and every card TO_REVIEW, the first queue has exactly 2 entries;
\* after both are rated 'remembered', 2 cards were reviewed today, the
\* session is complete and the counts are 2 finished and the rest (1 of 3)
\* to review.
C21_ExampleSession ==
    /\ (JustBuilt /\ Reviewed = 0) => Len(queue) = 2
    /\ BothRemembered =>
          /\ Reviewed = 2
          /\ isComplete
          /\ Stats = [mode |-> "simple", total |-> Len(deck.cards),
                      finished |-> 2, toReview |-> Len(deck.cards) - 2]

\* Both entries of the first queue were rated 'remembered' in a deck of three.
C21_Witness ==
    /\ BothRemembered
    /\ Len(deck.cards) = 3
    /\ isComplete

\* ---- C22
\* C22: getDeckStats changes no state. In spaced mode due + upcoming = total
\* and due is the number of cards without a dueDate or with one that is not
\* after today; in simple mode finished + toReview = total and toReview is the
\* number of cards that are not FINISHED.
C22_DeckStats ==
    /\ [](/\ Stats.total = Len(deck.cards)
          /\ deck.learningMode = "spaced" =>
                /\ Stats.due + Stats.upcoming = Stats.total
                /\ Stats.due = NumEligible
          /\ deck.learningMode = "simple" =>
                /\ Stats.finished + Stats.toReview = Stats.total
                /\ Stats.toReview = NumEligible
          /\ lastOp = "render" => ret.stats = Stats)
    /\ [][lastOp' = "render" => UNCHANGED <<today, Session>>]_vars

\* The counts were shown while one card of a spaced deck is due today or
\* earlier and another is due later.
C22_Witness ==
    /\ lastOp = "render"
    /\ ret.stats.mode = "spaced"
    /\ ret.stats.due > 0
    /\ ret.stats.upcoming > 0
    /\ \E r \in DeckRefs : card[r].dueDate \in 0..today

\* ---- C23
\* C23: the cursor is always between 0 and the queue length; isComplete() is
\* true exactly when the cursor is at or past the end; getCurrentCard() is
\* none exactly when the session is complete and the entry at the cursor
\* otherwise; getProgress() is the pair (cursor, queue length); the queries
\* change no state.
C23_Queries ==
    /\ [](/\ currentIndex \in 0..Len(queue)
          /\ isComplete <=> currentIndex >= Len(queue)
          /\ (getCurrentCard = NULL) <=> isComplete
          /\ ~isComplete => getCurrentCard = queue[currentIndex + 1]
          /\ getProgress = [current |-> currentIndex, total |-> Len(queue)]
          /\ lastOp = "render" =>
                /\ ret.complete = (currentIndex = Len(queue))
                /\ ret.current = IF currentIndex = Len(queue) THEN NULL
                                 ELSE queue[currentIndex + 1]
                /\ ret.progress = [current |-> currentIndex, total |-> Len(queue)]
                /\ ret.canRewind = (rewindBackup # <<>>))
    /\ [][lastOp' = "render" =>
             UNCHANGED <<deck, card, queue, currentIndex, rewindBackup, today>>]_vars

\* The page was drawn in the middle of a queue of two, after an undo.
C23_Witness ==
    /\ lastOp = "render"
    /\ ~ret.complete
    /\ ret.current \in DeckRefs
    /\ ret.progress = [current |-> 1, total |-> 2]
    /\ ~ret.canRewind
    /\ rated = 2

\* ---- C24
\* A step that is not a queue build.
NoBuildStep == lastOp' \notin {"buildQueue", "resetDeckCards"}

\* C24: between two queue builds the queue keeps its length; rateCard changes
\* no slot; rewind changes at most the slot at the saved cursor; the cursor
\* rises only by one and only in rateCard, and falls only in rewind.
C24_QueueFrame ==
    [][NoBuildStep =>
          /\ Len(queue') = Len(queue)
          /\ lastOp' = "rateCard" => queue' = queue
          /\ lastOp' = "rewind" =>
                \A i \in DOMAIN queue :
                    queue'[i] # queue[i] =>
                        (rewindBackup # <<>> /\ i = rewindBackup[1].index + 1)
          /\ lastOp' \notin {"rateCard", "rewind"} => queue' = queue
          /\ currentIndex' > currentIndex =>
                (lastOp' = "rateCard" /\ currentIndex' = currentIndex + 1)
          /\ currentIndex' < currentIndex => lastOp' = "rewind"]_vars

\* An undo replaced the entry at the saved cursor by another card, so that
\* one card now fills two slots, and moved the cursor back.
C24_Witness ==
    /\ lastOp = "rewind"
    /\ ret = "true"
    /\ Len(queue) = 2
    /\ queue[1] = queue[2]
    /\ currentIndex = 1

\* ---- C25
\* C25: in spaced mode a 'good' or 'easy' rating leaves the rated card with an
\* interval strictly greater than the one it had (1 when it had none).
C25_IntervalGrows ==
    (JustSpaced /\ pre[1].rating \in {"good", "easy"}) =>
        card[pre[1].ref].interval > IntervalBefore

\* ---- C26
\* C26: once a rating has left an undo record, canRewind() stays true until
\* the rating is undone or another rating replaces it, whatever else is done
\* in between (extending the session, saving the settings, closing the card
\* editor, reopening the deck), and a rewind then succeeds.
C26_UndoAtAnyTime ==
    [][/\ (canRewind /\ lastOp' \notin {"rateCard", "rewind"}) => canRewind'
       /\ (canRewind /\ lastOp' = "rewind") => ret' = "true"]_vars

\* ---- C27
\* The deck has none of lastSessionDate, cardsReviewedToday, sessionExtension.
NoCounters ==
    /\ deck.lastSessionDate = ABSENT
    /\ deck.cardsReviewedToday = ABSENT
    /\ deck.sessionExtension = ABSENT

\* C27: a queue build on a deck that has no lastSessionDate, no
\* cardsReviewedToday and no sessionExtension leaves lastSessionDate = today,
\* both counters 0 and a queue of min(dailyLimit, number of candidates)
\* entries.
C27_MissingCounters ==
    [][(NoCounters /\ lastOp' = "buildQueue") =>
          /\ deck'.lastSessionDate = today
          /\ deck'.cardsReviewedToday = 0
          /\ deck'.sessionExtension = 0
          /\ Len(queue') = Min(deck'.dailyLimit, NumEligible')]_vars

\* A deck of an older record was opened: its cards still lack the scheduling
\* fields, the counters are there and the daily limit has cut the queue.
C27_Witness ==
    /\ lastOp = "buildQueue"
    /\ rated = 0
    /\ \A r \in DeckRefs : card[r].dueDate = ABSENT
    /\ deck.lastSessionDate = today
    /\ deck.cardsReviewedToday = 0
    /\ deck.sessionExtension = 0
    /\ Len(queue) = deck.dailyLimit
    /\ NumEligible > deck.dailyLimit

\* ---- C28
\* The orders of the elements of s.
Permutations(s) ==
    {p \in [DOMAIN s -> Range(s)] : \A i, j \in DOMAIN s : i # j => p[i] # p[j]}

\* C28: the shuffle of buildQueue gives every order of the candidates, each
\* for exactly one outcome of its random draws, so that with draws that are
\* uniform every order is as likely as any other; and the queue just built is
\* the head of one of these orders.
C28_UniformShuffle ==
    LET c == Candidates(deck, card, today)
    IN  /\ \A p \in Permutations(c) :
               Cardinality({j \in Draws(Len(c)) : FisherYates(c, j) = p}) = 1
        /\ JustBuilt =>
               \E p \in Permutations(c) : queue = SubSeq(p, 1, Len(queue))

\* A queue built of three candidates starts with the last and the first.
C28_Witness ==
    LET c == Candidates(deck, card, today)
    IN  /\ JustBuilt
        /\ Len(c) = 3
        /\ queue = <<c[3], c[1]>>

\* ---- C29
\* C29: once the card editor is closed again, by one of its close buttons or
\* by the Escape key, the queue has been rebuilt from the edited deck:
\* with no dialog open, getCurrentCard() is none or a card of the deck.
C29_RebuiltAfterEditing ==
    modal = "none" => (getCurrentCard = NULL \/ getCurrentCard \in DeckRefs)

\* ---- C30
\* C30: whenever an undo record is pending its saved cursor is the cursor
\* minus one, also after ratings that skipped a stale entry, so that a rewind
\* moves the cursor back by exactly one.
C30_SavedCursorIsPrevious ==
    rewindBackup # <<>> => rewindBackup[1].index = currentIndex - 1

\* ---- C31
\* C31: in simple mode the current card, when there is one, is never
\* FINISHED, whatever queue builds, ratings and undos came before, also in
\* decks with two cards of the same word and translation.
C31_CurrentNotFinished ==
    (deck.learningMode = "simple" /\ getCurrentCard # NULL) =>
        card[getCurrentCard].sessionStatus # "FINISHED"

\* ---- C32
\* C32: in spaced mode a card rated 'hard', 'good' or 'easy' gets a dueDate
\* after today and a card rated 'again' gets dueDate = today; a queue built
\* in spaced mode holds no card that is due after today, and leaves out a
\* card that is due today or earlier only when the allowance is used up.
C32_RatedCardsAndLaterQueues ==
    /\ [](JustSpaced =>
             IF pre[1].rating = "again"
             THEN card[pre[1].ref].dueDate = today
             ELSE card[pre[1].ref].dueDate > today)
    /\ [][(lastOp' = "buildQueue" /\ today' = today /\ deck'.learningMode = "spaced") =>
             \A r \in DeckRefs :
                 /\ card[r].dueDate > today => r \notin Range(queue')
                 /\ card[r].dueDate \in 0..today =>
                        (r \in Range(queue') \/ Len(queue') = RemainingNow')]_vars

\* The session was extended after one card was rated 'again' and another
\* 'good', 'hard' or 'easy': the new queue holds the first and not the second.
C32_Witness ==
    /\ lastOp = "buildQueue"
    /\ deck.learningMode = "spaced"
    /\ deck.sessionExtension > 0
    /\ rated = 2
    /\ \E r \in DeckRefs : card[r].dueDate > today /\ r \notin Range(queue)
    /\ \E s \in Range(queue) : card[s].dueDate = today

\* ---- C33
\* C33: after extendSession(deck, amount), whatever the deck's
\* lastSessionDate, sessionExtension is at least max(1, amount).
C33_ExtensionInEffect ==
    [][\A amount \in Amounts :
           ExtendedBy(amount) =>
               deck'.sessionExtension >= (IF amount >= 1 THEN amount ELSE 1)]_vars

\* ---- C34
\* C34: a card is rated from the page only after its answer was shown. The
\* answer view SHOW_BACK is entered only by onShowAnswer from SHOW_FRONT and
\* shows the same card as long as it lasts; onRate in any other state (NO_DECK,
\* SHOW_FRONT, SESSION_COMPLETE), by button or by key, changes no card, counter
\* or cursor; the cursor advances only by onRate in SHOW_BACK; and every
\* rating that takes effect leaves the page in SHOW_FRONT or SESSION_COMPLETE.
C34_RatedOnlyWithAnswerShown ==
    [][/\ (appState' = "SHOW_BACK" /\ appState # "SHOW_BACK") =>
              (appState = "SHOW_FRONT" /\ lastOp' = "onShowAnswer")
       /\ (appState = "SHOW_BACK" /\ appState' = "SHOW_BACK") =>
              getCurrentCard' = getCurrentCard
       /\ (lastOp' = "onRate" /\ appState # "SHOW_BACK") =>
              UNCHANGED <<deck, card, queue, currentIndex, rewindBackup, storage, appState>>
       /\ (lastOp' = "onRate" /\ appState = "SHOW_BACK") =>
              appState' \in {"SHOW_FRONT", "SESSION_COMPLETE"}
       /\ currentIndex' = currentIndex + 1 =>
              (appState = "SHOW_BACK" /\ lastOp' = "onRate")]_vars

\* A second card of a queue was rated and the page shows the next front.
C34_Witness ==
    /\ lastOp = "onRate"
    /\ rated = 2
    /\ currentIndex = 1
    /\ appState = "SHOW_FRONT"

\* ---- C35
\* C35: after every handler of the page, appState is NO_DECK exactly when no
\* deck is loaded, SESSION_COMPLETE only when the session is complete, and
\* SHOW_FRONT or SHOW_BACK only when there is a current card.
C35_AppStateMatchesSession ==
    /\ (appState = "NO_DECK") <=> (currentDeck = NoDeck)
    /\ appState = "SESSION_COMPLETE" => isComplete
    /\ appState \in {"SHOW_FRONT", "SHOW_BACK"} => getCurrentCard # NULL

\* The current deck was deleted in the middle of its queue, after a rating.
C35_Witness ==
    /\ appState = "NO_DECK"
    /\ currentDeck = NoDeck
    /\ rated > 0
    /\ ~isComplete

\* ---- C36
Stored(n) == storage[n] # <<>>

\* C36: importing a deck, from a JSON file or a .txt file, leaves every stored
\* deck stored under its name with unchanged contents, and stores the imported
\* deck under a name that was unused before.
C36_ImportKeepsStoredDecks ==
    [][lastOp' = "importDeck" =>
           /\ \A n \in DeckNames : Stored(n) => storage'[n] = storage[n]
           /\ \E n \in DeckNames : ~Stored(n) /\ Stored(n)']_vars

\* ---- C37
\* C37: after every handler that changes the loaded deck (rate, undo, extend,
\* open, settings save, card add, edit, delete and import, card reset, card
\* editor close) the deck stored under its name equals the deck in memory in
\* every field, the cards included.
C37_StoredEqualsMemory ==
    currentDeck # NoDeck => storage[currentDeck] = <<Snapshot(deck, card)>>

\* ---- C38
\* C38: a sitting terminates. With no undo and no rebuild, every rateCard
\* call before the end moves the cursor forward by one and leaves the queue
\* as long as it was, whether or not the entry still matches a card of the
\* deck, so the session is complete after exactly (queue length - cursor)
\* calls; a call at the end changes nothing; the session becomes complete and
\* stays complete.
C38_SittingTerminates ==
    /\ [][lastOp' = "rateCard" =>
              IF currentIndex < Len(queue)
              THEN queue' = queue /\ currentIndex' = currentIndex + 1
              ELSE UNCHANGED <<deck, card, queue, currentIndex, rewindBackup>>]_vars
    /\ <>[]isComplete

\* A queue of two entries came to its end with one rating: the other entry
\* matched no card of the deck any more.
C38_Witness ==
    /\ lastOp = "rateCard"
    /\ isComplete
    /\ Len(queue) = 2
    /\ rated = 1

\* ---- C39
\* C39: after a confirmed reset of the cards every card of the loaded deck has
\* sessionStatus TO_REVIEW, dueDate null, interval 1 and easeFactor 2.5, the
\* deck has cardsReviewedToday = 0 and sessionExtension = 0, and the session
\* was rebuilt: the queue has min(dailyLimit, number of cards) entries, the
\* cursor is 0 and no undo record is pending. A declined confirmation changes
\* nothing.
C39_ResetCards ==
    /\ [](lastOp = "resetDeckCards" =>
              /\ \A r \in DeckRefs :
                     /\ card[r].sessionStatus = "TO_REVIEW"
                     /\ card[r].dueDate = NULL
                     /\ card[r].interval = 1
                     /\ card[r].easeFactor = 25000
              /\ deck.cardsReviewedToday = 0
              /\ deck.sessionExtension = 0
              /\ Len(queue) = Min(deck.dailyLimit, Len(deck.cards))
              /\ currentIndex = 0
              /\ ~canRewind)
    /\ [][lastOp' = "resetDeclined" =>
              UNCHANGED <<deck, card, queue, currentIndex, rewindBackup,
                          appState, currentDeck, storage>>]_vars

\* A reset right after a rating: the rated card is back to its initial
\* fields, both cards are queued and the undo record is gone.
C39_Witness ==
    /\ lastOp = "resetDeckCards"
    /\ rated > 0
    /\ Len(queue) = 2
    /\ currentDeck = "A"

\* ---- C40
\* C40: cardsReviewedToday counts only ratings of the calendar day stored in
\* lastSessionDate, days passing between operations: a rating that is added
\* to the count is made on the day lastSessionDate, so a rating made after the
\* day changed while a queue is in progress is not added to the previous
\* day's count.
C40_CountsRatingsOfItsDay ==
    [][(lastOp' = "rateCard"
            /\ deck'.cardsReviewedToday = OrDefault(deck.cardsReviewedToday, 0) + 1) =>
           deck'.lastSessionDate = today]_vars

====
